---- MODULE Spec2Model ----
(***************************************************************************)
(* Model of handlers/chat_handler.go: the per-user SSE subscriber map      *)
(* (userStreams), the Stream handler with its deferred cleanup and body    *)
(* stream writer, publishToUser, and the chat command handlers.            *)
(*                                                                         *)
(* Go slices are modelled as they are laid out: a header (len, cap) over a *)
(* backing array.  userStreams.m[u] is a header; the arrays live in heap.  *)
(* The capacity of m[u] only grows (the entry is never deleted and         *)
(* append(subs[:i], subs[i+1:]...) reuses the array), so user u owns at    *)
(* most one backing array per capacity and <<u, cap>> names the array.     *)
(***************************************************************************)
EXTENDS Naturals, Sequences, FiniteSets

\* ---------------------------------------------------------------- bounds
NUsers == 2
NTexts == 1
\* Spec: three connections, requests served one after the other
NConn == 3
NProcBus == 1
MaxReq == 2
\* SpecFull, FairFull: requests that arrive once a queue is (nearly) full
MaxReqFull == 1
\* FairStream: requests that arrive while streams open and end
MaxReqLive == 2
\* SpecChat: the command handlers over the store, two connections
NConnChat == 2
MaxReqChat == 2
NProducts == 1
MaxConv == 1
NCallers == 3
\* SpecPub: two connections, two concurrent request goroutines
NConnPub == 2
NProc == 2
MaxReqPub == 3

\* ------------------------------------------------------ program constants
QueueCap == 32

Users == 1..NUsers
Conns == 1..NConn
Procs == 1..NProc
ProcsBus == 1..NProcBus
ConnsPub == 1..NConnPub
ConnsChat == 1..NConnChat
Products == 1..NProducts
\* a request's conversation id (0: missing) and content (0: the empty string)
ConvIds == 0..MaxConv
Contents == 0..NTexts
\* the identity middleware resolves, 0 when there is none
Callers == 0..NCallers
Texts == 1..NTexts
Nil == 0
Caps == {1, 2, 4, 8}
NilSlice == [len |-> 0, cap |-> 0]

VARIABLES
  m,        \* userStreams.m : user -> slice header of []chan []byte
  heap,     \* backing arrays : user -> capacity -> array of channels (Nil = unset)
  lockW,    \* writer holding userStreams' RWMutex (a connection), or 0
  queue,    \* msgCh buffer of each connection's channel
  closed,   \* whether close(msgCh) has run
  closeCount, \* number of close(msgCh) executions on the channel
  cpc,      \* Stream handler position of each connection
  cuser,    \* userID of the connection
  cold,     \* cleanup: the array contents read by append's memmove
  cmv,      \* cleanup: destination indexes the memmove has still to store
  wpc,      \* body stream writer position
  written,  \* frames the body stream writer has written
  ppc,      \* request goroutine position
  preq,     \* the request being served: handler, user, conversation, content
  presp,    \* response of the last request served by the goroutine
  pdata,    \* data of that response (conversation id, message id, rows), 0 when none
  ptodo,    \* users still to publish to (participants loop)
  pevt,     \* sseEvent being published
  psubs,    \* publishToUser: subs, the slice header read under RLock
  ppayload, \* publishToUser: payload
  pk,       \* publishToUser: range index
  pch,      \* publishToUser: ch of the current iteration
  pcall,    \* history: number of the publishToUser call in progress
  plive,    \* history: handles registered since the call started
  pfull,    \* history: handles whose queue was full when the call reached them
  ncall,    \* history: publishToUser calls started
  budget,   \* environment: requests still to arrive
  conc,     \* history: call -> earlier calls that had not returned when it started
  log,      \* history: every entry enqueued on the channel, in enqueue order
  ensured,  \* history: triple and id of the last successful EnsureConversation
  conversations, \* rows of table conversations (id = position)
  messages  \* rows of table messages (id = position)

busVars == <<m, heap, lockW, queue, closed, closeCount>>
connVars == <<cpc, cuser, cold, cmv, wpc, written>>
procVars == <<ppc, preq, presp, pdata, ptodo, pevt, psubs, ppayload, pk, pch>>
histVars == <<pcall, plive, pfull, ncall, budget, conc, log, ensured>>
dbVars == <<conversations, messages>>
vars == <<busVars, connVars, procVars, histVars, dbVars>>

\* ------------------------------------------------------------- helpers
Range(s) == {s[i] : i \in 1..Len(s)}

\* runtime growslice for 8-byte elements below 256: 0 -> 1, then doubling
GrowCap(cap) == IF cap = 0 THEN 1 ELSE 2 * cap

\* the elements a slice header denotes
Elems(u, s) == IF s.len = 0 THEN <<>> ELSE SubSeq(heap[u][s.cap], 1, s.len)

\* userStreams.m[u] as a list
Subs(u) == Elems(u, m[u])

\* position of channel h in list s, 0 when absent (the range loop of the cleanup)
IndexOf(s, h) ==
  IF \E i \in 1..Len(s) : s[i] = h
  THEN CHOOSE i \in 1..Len(s) : s[i] = h /\ \A j \in 1..(i - 1) : s[j] # h
  ELSE 0

\* json.Marshal(evt): the serialized object, type first then data
Marshal(evt) == <<"{type:", evt.type, "data:", evt.data, "}">>

NoReq == [handler |-> "none", user |-> 0, conv |-> 0, content |-> 0, product |-> 0, buyer |-> 0, seller |-> 0]
NoEvt == [type |-> "none", data |-> <<>>]
NoEnsured == [triple |-> <<>>, id |-> 0]

InitWith(b) ==
  /\ budget = b
  /\ m = [u \in Users |-> NilSlice]
  /\ heap = [u \in Users |-> [c \in Caps |-> <<>>]]
  /\ lockW = 0
  /\ queue = [c \in Conns |-> <<>>]
  /\ closed = [c \in Conns |-> FALSE]
  /\ closeCount = [c \in Conns |-> 0]
  /\ cpc = [c \in Conns |-> "idle"]
  /\ cuser = [c \in Conns |-> 0]
  /\ cold = [c \in Conns |-> <<>>]
  /\ cmv = [c \in Conns |-> {}]
  /\ wpc = [c \in Conns |-> "none"]
  /\ written = [c \in Conns |-> <<>>]
  /\ ppc = [p \in Procs |-> "idle"]
  /\ preq = [p \in Procs |-> NoReq]
  /\ presp = [p \in Procs |-> "none"]
  /\ pdata = [p \in Procs |-> 0]
  /\ ptodo = [p \in Procs |-> <<>>]
  /\ pevt = [p \in Procs |-> NoEvt]
  /\ psubs = [p \in Procs |-> NilSlice]
  /\ ppayload = [p \in Procs |-> <<>>]
  /\ pk = [p \in Procs |-> 0]
  /\ pch = [p \in Procs |-> Nil]
  /\ pcall = [p \in Procs |-> 0]
  /\ plive = [p \in Procs |-> {}]
  /\ pfull = [p \in Procs |-> {}]
  /\ ncall = 0
  /\ conc = <<>>
  /\ log = [c \in Conns |-> <<>>]
  /\ ensured = NoEnsured
  /\ conversations = <<>>
  /\ messages = <<>>

Init == InitWith(MaxReq)
InitPub == InitWith(MaxReqPub)
InitChat == InitWith(MaxReqChat)

\* ------------------------------------------------------------- Stream
\* Each Stream call makes its own channel; connections are numbered in the
\* order their handlers start, so the next call to start is the lowest idle one.
NextConn(c) == cpc[c] = "idle" /\ \A d \in 1..(c - 1) : cpc[d] # "idle"

\* lines 33-48: no identity could be resolved, the handler returns ErrUnauthorized
StreamUnauthorized(c) ==
  /\ NextConn(c)
  /\ cpc' = [cpc EXCEPT ![c] = "rejected"]
  /\ UNCHANGED <<busVars, cuser, cold, cmv, wpc, written, procVars, histVars, dbVars>>

\* append(userStreams.m[u], h): in place when capacity is left, else into a
\* new array holding a copy of the old elements
AppendHeap(u, h) ==
  LET s == m[u] IN
  IF s.len < s.cap
  THEN [heap EXCEPT ![u][s.cap][s.len + 1] = h]
  ELSE [heap EXCEPT ![u][GrowCap(s.cap)] =
          [i \in 1..GrowCap(s.cap) |->
             IF i <= s.len THEN heap[u][s.cap][i]
             ELSE IF i = s.len + 1 THEN h ELSE Nil]]

AppendHeader(u) ==
  LET s == m[u] IN
  IF s.len < s.cap THEN [len |-> s.len + 1, cap |-> s.cap]
  ELSE [len |-> s.len + 1, cap |-> GrowCap(s.cap)]

\* lines 53-57: make the channel and register it under the write lock
Register(c, u) ==
  /\ NextConn(c)
  /\ lockW = 0
  /\ cuser' = [cuser EXCEPT ![c] = u]
  /\ heap' = AppendHeap(u, c)
  /\ m' = [m EXCEPT ![u] = AppendHeader(u)]
  /\ cpc' = [cpc EXCEPT ![c] = "registered"]
  /\ UNCHANGED <<lockW, queue, closed, closeCount, cold, cmv, wpc, written, procVars, histVars, dbVars>>

\* lines 73-84: SetBodyStreamWriter installs the writer, which starts pumping
InstallWriter(c) ==
  /\ cpc[c] = "registered"
  /\ cpc' = [cpc EXCEPT ![c] = "installed"]
  /\ wpc' = [wpc EXCEPT ![c] = "running"]
  /\ UNCHANGED <<busVars, cuser, cold, cmv, written, procVars, histVars, dbVars>>

\* variant: the list is cut by one (subs[:len(subs)-1]) without shifting
MoveDests_None(i, n) == {}

\* the destination indexes append(subs[:i], subs[i+1:]...) stores to
MoveDests(i, n) == IF i = 0 THEN {} ELSE i..(n - 1)

\* variant: the cleanup also closes msgCh before removing it from the map
CleanupLock_CloseFirst(c) ==
  /\ cpc[c] = "installed"
  /\ lockW = 0
  /\ lockW' = c
  /\ cold' = [cold EXCEPT ![c] = Subs(cuser[c])]
  /\ cmv' = [cmv EXCEPT ![c] = MoveDests(IndexOf(Subs(cuser[c]), c), Len(Subs(cuser[c])))]
  /\ cpc' = [cpc EXCEPT ![c] = "moving"]
  /\ plive' = [p \in Procs |-> plive[p] \ {c}]
  /\ closed' = [closed EXCEPT ![c] = TRUE]
  /\ closeCount' = [closeCount EXCEPT ![c] = @ + 1]
  /\ UNCHANGED <<m, heap, queue, cuser, wpc, written, procVars,
                 pcall, pfull, ncall, budget, conc, log, ensured, dbVars>>

\* lines 85, 60-64: return nil runs the deferred cleanup: Lock, find msgCh
CleanupLock(c) ==
  /\ cpc[c] = "installed"
  /\ lockW = 0
  /\ lockW' = c
  /\ cold' = [cold EXCEPT ![c] = Subs(cuser[c])]
  /\ cmv' = [cmv EXCEPT ![c] = MoveDests(IndexOf(Subs(cuser[c]), c), Len(Subs(cuser[c])))]
  /\ cpc' = [cpc EXCEPT ![c] = "moving"]
  /\ plive' = [p \in Procs |-> plive[p] \ {c}]
  /\ UNCHANGED <<m, heap, queue, closed, closeCount, cuser, wpc, written, procVars,
                 pcall, pfull, ncall, budget, conc, log, ensured, dbVars>>

\* line 65: one store of append's memmove, subs[j] = old subs[j+1]
CleanupMove(c, j) ==
  /\ cpc[c] = "moving"
  /\ j \in cmv[c]
  /\ heap' = [heap EXCEPT ![cuser[c]][m[cuser[c]].cap][j] = cold[c][j + 1]]
  /\ cmv' = [cmv EXCEPT ![c] = @ \ {j}]
  /\ UNCHANGED <<m, lockW, queue, closed, closeCount, cpc, cuser, cold, wpc, written,
                 procVars, histVars, dbVars>>

\* variant: the cleanup drops the user's whole entry (delete(userStreams.m, userID))
RemovedHeader_DeleteKey(s, found) == IF found THEN NilSlice ELSE s

\* variant: the shortened slice is not stored back in the map
RemovedHeader_NotStored(s, found) == s

\* the header the cleanup stores in the map: one shorter when msgCh was found
RemovedHeader(s, found) == IF found THEN [len |-> s.len - 1, cap |-> s.cap] ELSE s

\* lines 65-69: store the shortened header in the map, Unlock
CleanupUnlock(c) ==
  /\ cpc[c] = "moving"
  /\ cmv[c] = {}
  /\ m' = [m EXCEPT ![cuser[c]] = RemovedHeader(@, IndexOf(cold[c], c) # 0)]
  /\ lockW' = 0
  /\ cold' = [cold EXCEPT ![c] = <<>>]
  /\ cpc' = [cpc EXCEPT ![c] = "closing"]
  /\ UNCHANGED <<heap, queue, closed, closeCount, cuser, cmv, wpc, written, procVars,
                 histVars, dbVars>>

\* variant: the cleanup returns without close(msgCh)
CleanupClose_NoClose(c) ==
  /\ cpc[c] = "closing"
  /\ cpc' = [cpc EXCEPT ![c] = "returned"]
  /\ UNCHANGED <<busVars, cuser, cold, cmv, wpc, written, procVars, histVars, dbVars>>

\* line 70: close(msgCh); the handler has returned
CleanupClose(c) ==
  /\ cpc[c] = "closing"
  /\ closed' = [closed EXCEPT ![c] = TRUE]
  /\ closeCount' = [closeCount EXCEPT ![c] = @ + 1]
  /\ cpc' = [cpc EXCEPT ![c] = IF closed[c] THEN "panicked" ELSE "returned"]
  /\ UNCHANGED <<m, heap, lockW, queue, cuser, cold, cmv, wpc, written, procVars,
                 histVars, dbVars>>

\* lines 76-78: the frame written for a received value
Frame(e) == [call |-> e.call, text |-> <<"data: ", e.payload, "\n\n">>]

\* variant: the loop receives once to test the channel and once more to write
WriterRecv_DropFirst(c) ==
  /\ wpc[c] = "running"
  /\ Len(queue[c]) >= 2
  /\ written' = [written EXCEPT ![c] = Append(@, Frame(queue[c][2]))]
  /\ queue' = [queue EXCEPT ![c] = Tail(Tail(@))]
  /\ UNCHANGED <<m, heap, lockW, closed, closeCount, cpc, cuser, cold, cmv, wpc,
                 procVars, histVars, dbVars>>

\* lines 75-79: a value is received and written as one frame
WriterRecv(c) ==
  /\ wpc[c] = "running"
  /\ queue[c] # <<>>
  /\ written' = [written EXCEPT ![c] = Append(@, Frame(Head(queue[c])))]
  /\ queue' = [queue EXCEPT ![c] = Tail(@)]
  /\ UNCHANGED <<m, heap, lockW, closed, closeCount, cpc, cuser, cold, cmv, wpc,
                 procVars, histVars, dbVars>>

\* lines 80-82: the channel is closed and drained, the loop breaks
WriterBreak(c) ==
  /\ wpc[c] = "running"
  /\ queue[c] = <<>>
  /\ closed[c]
  /\ wpc' = [wpc EXCEPT ![c] = "done"]
  /\ UNCHANGED <<busVars, cpc, cuser, cold, cmv, written, procVars, histVars, dbVars>>

StreamStep(c) ==
  \/ StreamUnauthorized(c)
  \/ \E u \in Users : Register(c, u)
  \/ InstallWriter(c)
  \/ CleanupLock(c)
  \/ \E j \in 1..NConn : CleanupMove(c, j)
  \/ CleanupUnlock(c)
  \/ CleanupClose(c)
  \/ WriterRecv(c)
  \/ WriterBreak(c)

\* ------------------------------------------------------- publishToUser
\* a goroutine is started per request; it is named after the lowest free slot
Idle(p) == ppc[p] \in {"idle", "done"}
Free(p) == Idle(p) /\ budget > 0 /\ \A q \in 1..(p - 1) : ~Idle(q)

\* locals of the goroutine at the start of a request
StartRequest(p, req, todo, evt, pc) ==
  /\ preq' = [preq EXCEPT ![p] = req]
  /\ ptodo' = [ptodo EXCEPT ![p] = todo]
  /\ pevt' = [pevt EXCEPT ![p] = evt]
  /\ ppc' = [ppc EXCEPT ![p] = pc]
  /\ presp' = [presp EXCEPT ![p] = "none"]
  /\ pdata' = [pdata EXCEPT ![p] = 0]
  /\ psubs' = [psubs EXCEPT ![p] = NilSlice]
  /\ ppayload' = [ppayload EXCEPT ![p] = <<>>]
  /\ pk' = [pk EXCEPT ![p] = 0]
  /\ pch' = [pch EXCEPT ![p] = Nil]
  /\ budget' = budget - 1

\* line 107: the event publishNotification builds
NotifyEvt(t) == [type |-> "notification", data |-> <<"message", t>>]

\* lines 106-108: publishNotification(userID, message)
PublishNotification(p, u, t) ==
  /\ Free(p)
  /\ StartRequest(p, [NoReq EXCEPT !.handler = "publishNotification", !.user = u, !.content = t],
                  <<u>>, NotifyEvt(t), "publish")
  /\ UNCHANGED <<busVars, connVars, pcall, plive, pfull, ncall, conc, log, ensured, dbVars>>

\* position of the goroutine once publishToUser has returned: the next
\* participant of the caller's loop, or the caller's success response
AfterPublish(p) == IF Len(ptodo[p]) > 1 THEN "publish" ELSE "done"

\* history: the publishToUser calls that have returned
CallsDone ==
  {n \in 1..ncall : \A p \in Procs : pcall[p] = n => ppc[p] \notin {"loop", "send", "panicked"}}

\* history: the calls that had returned when call n started
Pred(n) == (1..(n - 1)) \ conc[n]

\* line 93: len(subs) == 0
IsEmpty(s) == s.len = 0

\* lines 90-96: read subs under RLock; return when empty, else marshal
ReadSubs(p) ==
  LET u == Head(ptodo[p]) IN
  /\ ppc[p] = "publish"
  /\ lockW = 0
  /\ psubs' = [psubs EXCEPT ![p] = m[u]]
  /\ ncall' = ncall + 1
  /\ pcall' = [pcall EXCEPT ![p] = ncall + 1]
  /\ conc' = Append(conc, (1..ncall) \ CallsDone)
  /\ plive' = [plive EXCEPT ![p] = Range(Subs(u))]
  /\ pfull' = [pfull EXCEPT ![p] = {}]
  /\ pch' = [pch EXCEPT ![p] = Nil]
  /\ IF IsEmpty(m[u])
     THEN /\ ppc' = [ppc EXCEPT ![p] = AfterPublish(p)]
          /\ presp' = [presp EXCEPT ![p] = IF Len(ptodo[p]) > 1 THEN @ ELSE "200"]
          /\ ptodo' = [ptodo EXCEPT ![p] = Tail(@)]
          /\ pk' = [pk EXCEPT ![p] = 0]
          /\ UNCHANGED ppayload
     ELSE /\ ppc' = [ppc EXCEPT ![p] = "loop"]
          /\ ppayload' = [ppayload EXCEPT ![p] = Marshal(pevt[p])]
          /\ pk' = [pk EXCEPT ![p] = 1]
          /\ UNCHANGED <<presp, ptodo>>
  /\ UNCHANGED <<busVars, connVars, preq, pdata, pevt, budget, log, ensured, dbVars>>

\* line 97: the range loop reads subs[k] from the backing array
Fetch(p) ==
  /\ ppc[p] = "loop"
  /\ pch' = [pch EXCEPT ![p] = heap[Head(ptodo[p])][psubs[p].cap][pk[p]]]
  /\ ppc' = [ppc EXCEPT ![p] = "send"]
  /\ UNCHANGED <<busVars, connVars, preq, presp, pdata, ptodo, pevt, psubs, ppayload, pk,
                 histVars, dbVars>>

\* variant: a plain send ch <- payload, which waits while the buffer is full
SendOutcome_Blocking(ch) ==
  IF ch = Nil THEN "block"
  ELSE IF closed[ch] THEN "panic"
  ELSE IF Len(queue[ch]) < QueueCap THEN "sent"
  ELSE "block"

\* outcome of select { case ch <- payload: default: } on channel ch
SendOutcome(ch) ==
  IF ch = Nil THEN "default"
  ELSE IF closed[ch] THEN "panic"
  ELSE IF Len(queue[ch]) < QueueCap THEN "sent"
  ELSE "default"

\* lines 98-102 and the loop's advance; after the last element the call returns
Send(p) ==
  LET ch == pch[p]
      out == SendOutcome(ch)
      e == [call |-> pcall[p], payload |-> ppayload[p]]
      last == pk[p] >= psubs[p].len
  IN
  /\ ppc[p] = "send"
  /\ out # "block"
  /\ queue' = IF out = "sent" THEN [queue EXCEPT ![ch] = Append(@, e)] ELSE queue
  /\ log' = IF out = "sent" THEN [log EXCEPT ![ch] = Append(@, e)] ELSE log
  /\ pfull' = IF out = "default" /\ ch # Nil THEN [pfull EXCEPT ![p] = @ \cup {ch}] ELSE pfull
  /\ IF out = "panic"
     THEN /\ ppc' = [ppc EXCEPT ![p] = "panicked"]
          /\ presp' = [presp EXCEPT ![p] = "panic"]
          /\ UNCHANGED <<ptodo, pk>>
     ELSE IF last
     THEN /\ ppc' = [ppc EXCEPT ![p] = AfterPublish(p)]
          /\ presp' = [presp EXCEPT ![p] = IF Len(ptodo[p]) > 1 THEN @ ELSE "200"]
          /\ ptodo' = [ptodo EXCEPT ![p] = Tail(@)]
          /\ UNCHANGED pk
     ELSE /\ ppc' = [ppc EXCEPT ![p] = "loop"]
          /\ pk' = [pk EXCEPT ![p] = @ + 1]
          /\ UNCHANGED <<presp, ptodo>>
  /\ UNCHANGED <<m, heap, lockW, closed, closeCount, connVars, preq, pdata, pevt, psubs,
                 ppayload, pch, pcall, plive, ncall, budget, conc, ensured, dbVars>>

PublishStep(p) ==
  \/ ReadSubs(p)
  \/ Fetch(p)
  \/ Send(p)

\* ---------------------------------------------------- command handlers
\* a finished request
Respond(p, status, data) ==
  /\ ppc' = [ppc EXCEPT ![p] = "done"]
  /\ presp' = [presp EXCEPT ![p] = status]
  /\ pdata' = [pdata EXCEPT ![p] = data]

\* line 180: ids of the rows matching the triple
FindConversation(product, buyer, seller) ==
  {i \in 1..Len(conversations) :
     /\ conversations[i].product = product
     /\ conversations[i].buyer = buyer
     /\ conversations[i].seller = seller}

\* lines 111-116, 178-183: the lookup; a row found without error is returned,
\* anything else (no row, store error) goes on to the insert
EnsureConversation(p, product, buyer, seller) ==
  /\ Free(p)
  /\ budget' = budget - 1
  /\ preq' = [preq EXCEPT ![p] = [NoReq EXCEPT !.handler = "EnsureConversation",
                 !.product = product, !.buyer = buyer, !.seller = seller]]
  /\ \E ok \in BOOLEAN :
       IF ok /\ FindConversation(product, buyer, seller) # {}
       THEN \E id \in FindConversation(product, buyer, seller) :
              /\ Respond(p, "200", id)
              /\ ensured' = [triple |-> <<product, buyer, seller>>, id |-> id]
       ELSE /\ ppc' = [ppc EXCEPT ![p] = "insert"]
            /\ presp' = [presp EXCEPT ![p] = "none"]
            /\ pdata' = [pdata EXCEPT ![p] = 0]
            /\ UNCHANGED ensured
  /\ ptodo' = [ptodo EXCEPT ![p] = <<>>]
  /\ pevt' = [pevt EXCEPT ![p] = NoEvt]
  /\ UNCHANGED <<busVars, connVars, psubs, ppayload, pk, pch, pcall, plive, pfull, ncall,
                 conc, log, dbVars>>

\* lines 184-189, 117-120: the insert; its failure is the 500 response
EnsureInsert(p) ==
  /\ ppc[p] = "insert"
  /\ \E ok \in BOOLEAN :
       IF ok
       THEN /\ conversations' = Append(conversations,
                 [product |-> preq[p].product, buyer |-> preq[p].buyer, seller |-> preq[p].seller])
            /\ Respond(p, "200", Len(conversations) + 1)
            /\ ensured' = [triple |-> <<preq[p].product, preq[p].buyer, preq[p].seller>>,
                           id |-> Len(conversations) + 1]
       ELSE /\ Respond(p, "500", 0)
            /\ UNCHANGED <<conversations, ensured>>
  /\ UNCHANGED <<busVars, connVars, preq, ptodo, pevt, psubs, ppayload, pk, pch,
                 pcall, plive, pfull, ncall, budget, conc, log, messages>>

\* variant: only the conversation id is validated
ValidSend_ConvOnly(conv, content) == conv # 0

\* lines 136-137: the validation of SendMessage
ValidSend(conv, content) == conv # 0 /\ content # 0

\* lines 193-196: outcomes of the INSERT into messages (TRUE: the row is stored).
\* saveMessage checks nothing itself; the store is taken to refuse a row whose
\* conversation does not exist, and it may fail for its own reasons.
InsertMessageOutcomes(conv) ==
  IF conv \in 1..Len(conversations) THEN BOOLEAN ELSE {FALSE}

\* variant: the error of saveMessage is not returned, the handler goes on
SendMessage_IgnoresSaveError(p, user, conv, content) ==
  /\ Free(p)
  /\ budget' = budget - 1
  /\ preq' = [preq EXCEPT ![p] = [NoReq EXCEPT !.handler = "SendMessage",
                 !.user = user, !.conv = conv, !.content = content]]
  /\ ptodo' = [ptodo EXCEPT ![p] = <<>>]
  /\ pevt' = [pevt EXCEPT ![p] = NoEvt]
  /\ IF user = 0 THEN Respond(p, "401", 0) /\ UNCHANGED messages
     ELSE IF ~ValidSend(conv, content) THEN Respond(p, "400", 0) /\ UNCHANGED messages
     ELSE \E ok \in InsertMessageOutcomes(conv) :
            /\ messages' = IF ok THEN Append(messages,
                                  [conv |-> conv, sender |-> user, content |-> content])
                           ELSE messages
            /\ ppc' = [ppc EXCEPT ![p] = "resolve"]
            /\ presp' = [presp EXCEPT ![p] = "none"]
            /\ pdata' = [pdata EXCEPT ![p] = IF ok THEN Len(messages) + 1 ELSE 0]
  /\ UNCHANGED <<busVars, connVars, psubs, ppayload, pk, pch, pcall, plive, pfull, ncall,
                 conc, log, ensured, conversations>>

\* lines 124-142, 192-201: authenticate, validate, saveMessage
SendMessage(p, user, conv, content) ==
  /\ Free(p)
  /\ budget' = budget - 1
  /\ preq' = [preq EXCEPT ![p] = [NoReq EXCEPT !.handler = "SendMessage",
                 !.user = user, !.conv = conv, !.content = content]]
  /\ ptodo' = [ptodo EXCEPT ![p] = <<>>]
  /\ pevt' = [pevt EXCEPT ![p] = NoEvt]
  /\ IF user = 0 THEN Respond(p, "401", 0) /\ UNCHANGED messages
     ELSE IF ~ValidSend(conv, content) THEN Respond(p, "400", 0) /\ UNCHANGED messages
     ELSE \E ok \in InsertMessageOutcomes(conv) :
            IF ok
            THEN /\ messages' = Append(messages,
                      [conv |-> conv, sender |-> user, content |-> content])
                 /\ ppc' = [ppc EXCEPT ![p] = "resolve"]
                 /\ presp' = [presp EXCEPT ![p] = "none"]
                 /\ pdata' = [pdata EXCEPT ![p] = Len(messages) + 1]
            ELSE Respond(p, "500", 0) /\ UNCHANGED messages
  /\ UNCHANGED <<busVars, connVars, psubs, ppayload, pk, pch, pcall, plive, pfull, ncall,
                 conc, log, ensured, conversations>>

\* lines 203-209: buyer and seller of the conversation, nothing on any error
GetConversationParticipants(conv, ok) ==
  IF ok /\ conv \in 1..Len(conversations)
  THEN <<conversations[conv].buyer, conversations[conv].seller>>
  ELSE <<>>

\* lines 144-150: the message event
MessageEvt(id, conv, sender, content) ==
  [type |-> "message",
   data |-> <<"id", id, "conversation_id", conv, "sender_id", sender, "content", content>>]

\* lines 143-154: resolve the participants and start publishing to them;
\* with no participant the loop is empty and the response is the success
SendResolve(p) ==
  /\ ppc[p] = "resolve"
  /\ \E ok \in BOOLEAN :
       LET parts == GetConversationParticipants(preq[p].conv, ok) IN
       /\ ptodo' = [ptodo EXCEPT ![p] = parts]
       /\ ppc' = [ppc EXCEPT ![p] = IF parts = <<>> THEN "done" ELSE "publish"]
       /\ presp' = [presp EXCEPT ![p] = IF parts = <<>> THEN "200" ELSE "none"]
  /\ pevt' = [pevt EXCEPT ![p] =
       MessageEvt(pdata[p], preq[p].conv, preq[p].user, preq[p].content)]
  /\ UNCHANGED <<busVars, connVars, preq, pdata, psubs, ppayload, pk, pch, histVars, dbVars>>

\* line 168: the typing event
TypingEvt(conv, user) ==
  [type |-> "typing", data |-> <<"conversation_id", conv, "user_id", user>>]

\* lines 169-174: the participants the loop publishes to, the caller skipped
TypingTargets(parts, user) == SelectSeq(parts, LAMBDA pid : pid # user)

\* lines 158-176: authenticate, resolve the participants, start publishing to
\* each of them but the caller; with nobody to publish to, respond at once
Typing(p, user, conv) ==
  /\ Free(p)
  /\ budget' = budget - 1
  /\ preq' = [preq EXCEPT ![p] = [NoReq EXCEPT !.handler = "Typing", !.user = user, !.conv = conv]]
  /\ pdata' = [pdata EXCEPT ![p] = 0]
  /\ IF user = 0
     THEN /\ ppc' = [ppc EXCEPT ![p] = "done"]
          /\ presp' = [presp EXCEPT ![p] = "401"]
          /\ ptodo' = [ptodo EXCEPT ![p] = <<>>]
          /\ pevt' = [pevt EXCEPT ![p] = NoEvt]
     ELSE \E ok \in BOOLEAN :
            LET todo == TypingTargets(GetConversationParticipants(conv, ok), user) IN
            /\ ptodo' = [ptodo EXCEPT ![p] = todo]
            /\ pevt' = [pevt EXCEPT ![p] = TypingEvt(conv, user)]
            /\ ppc' = [ppc EXCEPT ![p] = IF todo = <<>> THEN "done" ELSE "publish"]
            /\ presp' = [presp EXCEPT ![p] = IF todo = <<>> THEN "200" ELSE "none"]
  /\ UNCHANGED <<busVars, connVars, psubs, ppayload, pk, pch, pcall, plive, pfull, ncall,
                 conc, log, ensured, dbVars>>

\* line 245: the rows of the conversation, in insertion order
MessagesOf(conv) ==
  SelectSeq([i \in 1..Len(messages) |->
               [id |-> i, conv |-> messages[i].conv, sender |-> messages[i].sender,
                content |-> messages[i].content]],
            LAMBDA r : r.conv = conv)

\* line 242: the caller is the buyer or the seller of the conversation
MayRead(user, conv) == user \in {conversations[conv].buyer, conversations[conv].seller}

\* lines 232-260: authenticate, look the conversation up (any error of the
\* lookup is the not-found response), check the caller, list the rows
GetMessages(p, user, conv) ==
  /\ Free(p)
  /\ budget' = budget - 1
  /\ preq' = [preq EXCEPT ![p] = [NoReq EXCEPT !.handler = "GetMessages", !.user = user, !.conv = conv]]
  /\ ptodo' = [ptodo EXCEPT ![p] = <<>>]
  /\ pevt' = [pevt EXCEPT ![p] = NoEvt]
  /\ IF user = 0 THEN Respond(p, "401", 0)
     ELSE \E found \in BOOLEAN :
            IF ~(found /\ conv \in 1..Len(conversations)) THEN Respond(p, "404", 0)
            ELSE IF ~MayRead(user, conv) THEN Respond(p, "403", 0)
            ELSE \E ok \in BOOLEAN :
                   IF ok THEN Respond(p, "200", MessagesOf(conv)) ELSE Respond(p, "500", 0)
  /\ UNCHANGED <<busVars, connVars, psubs, ppayload, pk, pch, pcall, plive, pfull, ncall,
                 conc, log, ensured, dbVars>>

Next ==
  \/ \E c \in Conns : StreamStep(c)
  \/ \E p \in ProcsBus : \E u \in Users : \E t \in Texts : PublishNotification(p, u, t)
  \/ \E p \in ProcsBus : PublishStep(p)

Spec == Init /\ [][Next]_vars

\* The state after connection 1 of user 1 registered and installed its writer,
\* n publishNotification(1, text 1) requests were then served one after the
\* other, none of them read by the client yet, and connections 2..k of user 1
\* registered after that (k is 1 or 2: the arrays of capacity 1 and 2).
InitFilled(n, k, b) ==
  /\ budget = b
  /\ m = [u \in Users |-> IF u = 1 THEN [len |-> k, cap |-> k] ELSE NilSlice]
  /\ heap = [u \in Users |-> [c \in Caps |->
       IF u = 1 /\ c <= k THEN [i \in 1..c |-> i] ELSE <<>>]]
  /\ lockW = 0
  /\ queue = [c \in Conns |->
       IF c = 1 THEN [i \in 1..n |-> [call |-> i, payload |-> Marshal(NotifyEvt(1))]] ELSE <<>>]
  /\ log = queue
  /\ ensured = NoEnsured
  /\ closed = [c \in Conns |-> FALSE]
  /\ closeCount = [c \in Conns |-> 0]
  /\ cpc = [c \in Conns |-> IF c = 1 THEN "installed" ELSE IF c <= k THEN "registered" ELSE "idle"]
  /\ cuser = [c \in Conns |-> IF c <= k THEN 1 ELSE 0]
  /\ cold = [c \in Conns |-> <<>>]
  /\ cmv = [c \in Conns |-> {}]
  /\ wpc = [c \in Conns |-> IF c = 1 THEN "running" ELSE "none"]
  /\ written = [c \in Conns |-> <<>>]
  /\ ppc = [p \in Procs |-> IF p = 1 THEN "done" ELSE "idle"]
  /\ preq = [p \in Procs |->
       IF p = 1 THEN [NoReq EXCEPT !.handler = "publishNotification", !.user = 1, !.content = 1]
       ELSE NoReq]
  /\ presp = [p \in Procs |-> IF p = 1 THEN "200" ELSE "none"]
  /\ pdata = [p \in Procs |-> 0]
  /\ ptodo = [p \in Procs |-> <<>>]
  /\ pevt = [p \in Procs |-> IF p = 1 THEN NotifyEvt(1) ELSE NoEvt]
  /\ psubs = [p \in Procs |-> IF p = 1 THEN [len |-> 1, cap |-> 1] ELSE NilSlice]
  /\ ppayload = [p \in Procs |-> IF p = 1 THEN Marshal(NotifyEvt(1)) ELSE <<>>]
  /\ pk = [p \in Procs |-> IF p = 1 THEN 1 ELSE 0]
  /\ pch = [p \in Procs |-> IF p = 1 THEN 1 ELSE Nil]
  /\ pcall = [p \in Procs |-> IF p = 1 THEN n ELSE 0]
  /\ plive = [p \in Procs |-> IF p = 1 THEN {1} ELSE {}]
  /\ pfull = [p \in Procs |-> {}]
  /\ ncall = n
  /\ conc = [i \in 1..n |-> {}]
  /\ conversations = <<>>
  /\ messages = <<>>

InitFull == InitFilled(QueueCap, 2, MaxReqFull)

InitFullOne == InitFilled(QueueCap, 1, MaxReqFull)

SpecFull == InitFull /\ [][Next]_vars

NextLive ==
  \/ \E c \in ConnsPub : StreamStep(c)
  \/ \E p \in ProcsBus : \E u \in Users : \E t \in Texts : PublishNotification(p, u, t)
  \/ \E p \in ProcsBus : PublishStep(p)

\* The holder of the write lock runs straight-line code and releases it; the
\* lock is granted fairly to waiting readers; a runnable goroutine is scheduled.
\* Nothing is assumed of the clients: stream writers may never read.
Fairness ==
  /\ \A c \in Conns : WF_vars(\E j \in 1..NConn : CleanupMove(c, j))
  /\ \A c \in Conns : WF_vars(CleanupUnlock(c))
  /\ \A p \in Procs : SF_vars(ReadSubs(p))
  /\ \A p \in Procs : WF_vars(Fetch(p))
  /\ \A p \in Procs : WF_vars(Send(p))

FairFull == InitFullOne /\ [][NextLive]_vars /\ Fairness

InitLive == InitWith(MaxReqLive)

\* The handler and its deferred cleanup run straight-line code, the lock is
\* granted fairly, and the body stream writer is scheduled while it can
\* receive; its writes return, with an error once the connection has ended.
\* Nothing is assumed of the publishers.
StreamFairness ==
  /\ \A c \in Conns : WF_vars(InstallWriter(c))
  /\ \A c \in Conns : SF_vars(CleanupLock(c))
  /\ \A c \in Conns : WF_vars(\E j \in 1..NConn : CleanupMove(c, j))
  /\ \A c \in Conns : WF_vars(CleanupUnlock(c))
  /\ \A c \in Conns : WF_vars(CleanupClose(c))
  /\ \A c \in Conns : WF_vars(WriterRecv(c))
  /\ \A c \in Conns : WF_vars(WriterBreak(c))

FairStream == InitLive /\ [][NextLive]_vars /\ StreamFairness

NextChat ==
  \/ \E c \in ConnsChat : StreamStep(c)
  \/ \E p \in ProcsBus : \E pr \in Products : \E b, sl \in Users : EnsureConversation(p, pr, b, sl)
  \/ \E p \in ProcsBus : EnsureInsert(p)
  \/ \E p \in ProcsBus : \E u \in Callers : \E cv \in ConvIds : \E ct \in Contents :
       SendMessage(p, u, cv, ct)
  \/ \E p \in ProcsBus : SendResolve(p)
  \/ \E p \in ProcsBus : \E u \in Callers : \E cv \in ConvIds : Typing(p, u, cv)
  \/ \E p \in ProcsBus : \E u \in Callers : \E cv \in ConvIds : GetMessages(p, u, cv)
  \/ \E p \in ProcsBus : PublishStep(p)

SpecChat == InitChat /\ [][NextChat]_vars

NextPub ==
  \/ \E c \in ConnsPub : StreamStep(c)
  \/ \E p \in Procs : \E u \in Users : \E t \in Texts : PublishNotification(p, u, t)
  \/ \E p \in Procs : PublishStep(p)

SpecPub == InitPub /\ [][NextPub]_vars

\* ===================================================================
\* Properties
\* ===================================================================

\* connections of user u registered and not yet deregistered
Active(u) == {c \in Conns : cuser[c] = u /\ cpc[c] \in {"registered", "installed", "moving"}}

\* the last publishToUser call of goroutine p has returned
CallComplete(p) == pcall[p] # 0 /\ pcall[p] \in CallsDone

\* entries of call n in the enqueue history of channel h
EntriesOf(h, n) == {i \in 1..Len(log[h]) : log[h][i].call = n}

NoDuplicates(s) == \A i, j \in 1..Len(s) : s[i] = s[j] => i = j

\* C1: when a publishToUser call has returned, every handle of the user that
\* stayed registered during the whole call and whose queue was not found full
\* has had the call's serialized payload enqueued on it.
C1_EveryLiveHandleReceives ==
  \A p \in Procs : CallComplete(p) =>
    \A h \in plive[p] \ pfull[p] :
      \E i \in EntriesOf(h, pcall[p]) : log[h][i].payload = Marshal(pevt[p])

\* C2: a publishToUser call never sends on a closed queue, that is the
\* publisher never panics.
C2_PublishNeverPanics == \A p \in Procs : ppc[p] # "panicked"

\* C3: whenever the map is not being written (the lock is free), the handle
\* list of every user holds exactly the handles registered and not yet
\* deregistered, each exactly once.
C3_ListIsNetEffect ==
  lockW = 0 => \A u \in Users : Range(Subs(u)) = Active(u) /\ NoDuplicates(Subs(u))

\* C3 witness: a handle that was not last in its list has been removed while
\* two other handles of the same user stay registered.
C3_Witness ==
  /\ lockW = 0
  /\ \E u \in Users : Subs(u) = <<2, 3>> /\ cuser[1] = u /\ cpc[1] = "returned"

\* C4: while the body stream writer of a connection is pumping, the handle
\* is in the user's list and its queue is open.
C4_RegisteredWhileStreaming ==
  \A c \in Conns : wpc[c] = "running" =>
    /\ c \in Active(cuser[c])
    /\ c \in Range(Subs(cuser[c]))
    /\ ~closed[c]

\* C5: a queue is closed at most once, exactly once when the Stream call has
\* finished, by the cleanup only (the number of closes equals the number of
\* finished cleanups), and a closed queue is no longer in the map.
C5_ClosedOnceAfterRemoval ==
  \A c \in Conns :
    /\ closeCount[c] = IF cpc[c] = "returned" THEN 1 ELSE 0
    /\ closed[c] <=> closeCount[c] = 1
    /\ closed[c] => c \notin Range(Subs(cuser[c]))
    /\ cpc[c] # "panicked"

\* C5 witness: a writer has drained a queue closed by the cleanup and stopped.
C5_Witness ==
  \E c \in Conns : cpc[c] = "returned" /\ wpc[c] = "done" /\ written[c] # <<>>

C7_DropOnlyForFullHandle ==
  /\ \A c \in Conns : Len(queue[c]) <= QueueCap
  /\ \A p \in Procs : (CallComplete(p) /\ pfull[p] # {}) =>
       \A h \in plive[p] \ pfull[p] :
         \E i \in EntriesOf(h, pcall[p]) : log[h][i].payload = Marshal(pevt[p])

\* C8: the frames written for a handle followed by its buffered events are
\* exactly the events enqueued on it, in enqueue order; and an event of a call
\* that returned before another call started precedes that call's events.
C8_PerHandleFifo ==
  \A c \in Conns :
    /\ Len(written[c]) + Len(queue[c]) = Len(log[c])
    /\ \A i \in 1..Len(log[c]) :
         IF i <= Len(written[c]) THEN written[c][i] = Frame(log[c][i])
         ELSE queue[c][i - Len(written[c])] = log[c][i]
    /\ \A i, j \in 1..Len(log[c]) :
         log[c][i].call \in Pred(log[c][j].call) => i < j
    /\ wpc[c] = "done" => queue[c] = <<>>

\* C8 witness: the writer has written, in order, the frames of two calls of
\* which the first returned before the second started.
C8_Witness ==
  \E c \in Conns :
    /\ Len(written[c]) >= 2
    /\ written[c][1].call \in Pred(written[c][2].call)

\* C9: a publishToUser call for a user with no registered handle returns in
\* its first step, without error, and leaves the map and every queue unchanged.
C9_EmptyPublishIsNoop ==
  [][\A p \in Procs :
       (ncall' = ncall + 1 /\ pcall'[p] = ncall' /\ Active(Head(ptodo[p])) = {}) =>
         /\ pcall'[p] \in CallsDone'
         /\ presp'[p] \in {"none", "200"}
         /\ UNCHANGED <<m, heap, queue, closed, closeCount, written, log>>]_vars

\* C9 witness: a call found a list emptied by deregistration (length 0 over
\* an allocated array) and returned, while another queue holds an event.
C9_Witness ==
  \E p \in Procs :
    /\ CallComplete(p)
    /\ psubs[p].len = 0 /\ psubs[p].cap > 0
    /\ \E c \in Conns : queue[c] # <<>>
\* C10: every persisted message references an existing conversation and its
\* sender is that conversation's buyer or seller.
C10_SenderIsParticipant ==
  \A i \in 1..Len(messages) :
    /\ messages[i].conv \in 1..Len(conversations)
    /\ messages[i].sender \in {conversations[messages[i].conv].buyer,
                               conversations[messages[i].conv].seller}
\* the (product, buyer, seller) triple of conversation row i
TripleOf(i) == <<conversations[i].product, conversations[i].buyer, conversations[i].seller>>

\* C11: at most one conversation row exists per (product, buyer, seller)
\* triple, whatever the EnsureConversation calls and the outcomes of their
\* lookups (row, no row, store error).
C11_OneRowPerTriple ==
  \A i, j \in 1..Len(conversations) : TripleOf(i) = TripleOf(j) => i = j

\* a step in which goroutine p returns the success response of EnsureConversation
EnsureReturns(p) ==
  /\ preq'[p].handler = "EnsureConversation"
  /\ ppc'[p] = "done" /\ presp'[p] = "200"
  /\ ppc[p] = "insert" \/ (Free(p) /\ budget' # budget)

\* C12: when a successful EnsureConversation call follows a successful call
\* for the same triple, it returns the id the earlier call returned and
\* inserts no row.
C12_EnsureIdempotent ==
  [][\A p \in ProcsBus :
       (/\ EnsureReturns(p)
        /\ ensured.triple = <<preq'[p].product, preq'[p].buyer, preq'[p].seller>>) =>
         /\ pdata'[p] = ensured.id
         /\ conversations' = conversations]_vars
\* buyer and seller of an existing conversation
Participants(conv) == {conversations[conv].buyer, conversations[conv].seller}

\* the last publishToUser call of goroutine p, made for its current event, has
\* ended: it returned or was cut short by a panic
CallEnded(p) ==
  /\ pcall[p] # 0
  /\ ppc[p] \in {"publish", "done", "panicked"}
  /\ ppayload[p] = Marshal(pevt[p])

\* every handle that stayed registered during the last call of p and was not
\* found full holds the call's payload
Delivered(p) ==
  \A h \in plive[p] \ pfull[p] :
    \E i \in EntriesOf(h, pcall[p]) : log[h][i].payload = ppayload[p]

\* C13: once SendMessage has persisted a message, it publishes the message
\* event carrying its id, conversation, sender and content once to each of the
\* conversation's buyer and seller, the sender included, and every handle of a
\* participant that stays registered with free capacity receives it.
C13_MessageToEveryParticipant ==
  /\ [][\A p \in ProcsBus :
          (ppc[p] = "resolve" /\ ppc'[p] # "resolve") =>
            /\ pevt'[p] = MessageEvt(pdata[p], preq[p].conv, preq[p].user, preq[p].content)
            /\ Range(ptodo'[p]) = Participants(preq[p].conv)
            /\ NoDuplicates(ptodo'[p])]_vars
  /\ [](\A p \in ProcsBus : (pevt[p].type = "message" /\ CallEnded(p)) => Delivered(p))

\* C14: a Typing call by an authenticated user on a conversation publishes the
\* typing event to each participant other than the caller; the seller's
\* handles that stay registered with free capacity receive it; and no typing
\* event is ever enqueued on a handle of the user it names.
C14_TypingNotEchoed ==
  /\ [][\A p \in ProcsBus :
          (/\ Free(p) /\ budget' # budget /\ preq'[p].handler = "Typing" /\ preq'[p].user # 0
           /\ preq'[p].conv \in 1..Len(conversations)) =>
            /\ pevt'[p] = TypingEvt(preq'[p].conv, preq'[p].user)
            /\ Range(ptodo'[p]) = Participants(preq'[p].conv) \ {preq'[p].user}]_vars
  /\ [](\A p \in ProcsBus : (pevt[p].type = "typing" /\ CallEnded(p)) => Delivered(p))
  /\ [](\A c \in Conns : \A i \in 1..Len(log[c]) :
          log[c][i].payload[2] = "typing" => log[c][i].payload[4][4] # cuser[c])
\* a step in which the request goroutine p starts serving a call of handler h
Starts(p, h) == Free(p) /\ budget' # budget /\ preq'[p].handler = h

\* C15: a SendMessage request with empty content or a zero conversation id is
\* answered with the validation failure (the authorization failure when the
\* caller is not authenticated) in the step that receives it, and changes
\* nothing: no message row, no conversation row, no queue, no handle list,
\* and nothing is left to publish.
C15_InvalidSendChangesNothing ==
  [][\A p \in ProcsBus :
       (Starts(p, "SendMessage") /\ (preq'[p].conv = 0 \/ preq'[p].content = 0)) =>
         /\ ppc'[p] = "done"
         /\ presp'[p] = IF preq'[p].user = 0 THEN "401" ELSE "400"
         /\ ptodo'[p] = <<>>
         /\ UNCHANGED <<busVars, dbVars, log, written>>]_vars

\* C15 witness: an authenticated participant's message with empty content for
\* an existing conversation was refused while a participant's stream is open.
C15_Witness ==
  \E p \in ProcsBus :
    /\ preq[p].handler = "SendMessage" /\ presp[p] = "400"
    /\ preq[p].content = 0 /\ preq[p].conv \in 1..Len(conversations)
    /\ preq[p].user \in Participants(preq[p].conv)
    /\ \E c \in Conns : cpc[c] = "installed" /\ cuser[c] \in Participants(preq[p].conv)

\* C16: GetMessages by an authenticated user answers not-found
\* when the conversation does not exist, forbidden when it exists and the
\* caller is neither buyer nor seller, and rows only to a participant; the
\* not-found and forbidden answers carry no rows.
C16_GetMessagesOutcomes ==
  [][\A p \in ProcsBus :
       (Starts(p, "GetMessages") /\ preq'[p].user # 0) =>
         LET exists == preq'[p].conv \in 1..Len(conversations) IN
         /\ ~exists => presp'[p] = "404"
         /\ (exists /\ preq'[p].user \notin Participants(preq'[p].conv)) => presp'[p] = "403"
         /\ presp'[p] = "200" =>
              /\ exists /\ preq'[p].user \in Participants(preq'[p].conv)
              /\ pdata'[p] = MessagesOf(preq'[p].conv)
         /\ presp'[p] \in {"404", "403"} => pdata'[p] = 0]_vars

\* the message row an enqueued message payload refers to
RowOf(payload) ==
  [conv |-> payload[4][4], sender |-> payload[4][6], content |-> payload[4][8]]

\* C18: every message event enqueued on a handle carries the id of a stored
\* message row with the same conversation, sender and content; and a
\* SendMessage request whose row is not stored is answered with a failure in
\* the step that receives it, nothing being enqueued or left to publish.
C18_PublishAfterPersist ==
  /\ [](\A c \in Conns : \A i \in 1..Len(log[c]) :
          log[c][i].payload[2] = "message" =>
            /\ log[c][i].payload[4][2] \in 1..Len(messages)
            /\ messages[log[c][i].payload[4][2]] = RowOf(log[c][i].payload))
  /\ [][\A p \in ProcsBus :
          (Starts(p, "SendMessage") /\ messages' = messages) =>
            /\ ppc'[p] = "done"
            /\ presp'[p] \in {"401", "400", "500"}
            /\ (preq'[p].user # 0 /\ preq'[p].conv # 0 /\ preq'[p].content # 0) =>
                 presp'[p] = "500"
            /\ ptodo'[p] = <<>>
            /\ UNCHANGED <<queue, log>>]_vars
  /\ [][\A p \in ProcsBus : (ppc'[p] = "resolve" /\ ppc[p] # "resolve") =>
          messages' = Append(messages, [conv |-> preq'[p].conv, sender |-> preq'[p].user,
                                        content |-> preq'[p].content])]_vars

\* C18 witness: SendMessage has returned success and a stream of the sender
\* has written the frame of the stored message.
C18_Witness ==
  \E p \in ProcsBus : \E c \in Conns :
    /\ preq[p].handler = "SendMessage" /\ presp[p] = "200" /\ cuser[c] = preq[p].user
    /\ \E i \in 1..Len(written[c]) :
         /\ written[c][i].text[2][2] = "message"
         /\ messages[written[c][i].text[2][4][2]].sender = cuser[c]
\* a step of the Stream call of connection c: its handler or its deferred cleanup
StreamActs(c) == cpc'[c] # cpc[c] \/ cmv'[c] # cmv[c]

\* C17: a step of one Stream call (registration, rejection, cleanup) leaves
\* the lists and arrays of every other user, and the queue, the open state
\* and the progress of every other connection as they were; a registration
\* appends its handle after the user's other handles; and whenever the map is
\* not being written every user's list is exactly the registered handles in
\* the order they registered (handles are numbered in that order).
C17_StreamTouchesOwnHandle ==
  /\ [][\A c \in Conns : StreamActs(c) =>
          /\ \A u \in Users \ {cuser'[c]} : m'[u] = m[u] /\ heap'[u] = heap[u]
          /\ \A d \in Conns \ {c} :
               /\ queue'[d] = queue[d] /\ closed'[d] = closed[d]
               /\ cpc'[d] = cpc[d] /\ cuser'[d] = cuser[d] /\ wpc'[d] = wpc[d]
          /\ (cpc[c] = "idle" /\ cpc'[c] = "registered") =>
               \E u \in Users : cuser'[c] = u /\ Subs(u)' = Append(Subs(u), c)
          /\ queue'[c] = queue[c]]_vars
  /\ [](lockW = 0 => \A u \in Users :
          /\ Range(Subs(u)) = Active(u)
          /\ \A i, j \in 1..Len(Subs(u)) : i < j => Subs(u)[i] < Subs(u)[j])

\* C17 witness: the middle one of three handles of a user has been cleaned up
\* and closed; the first and the third are registered, in that order.
C17_Witness ==
  /\ lockW = 0
  /\ \E u \in Users : Subs(u) = <<1, 3>> /\ cuser[2] = u /\ cpc[2] = "returned"
  /\ ~closed[1] /\ ~closed[3]
\* C20: a publishToUser call enqueues its payload at most once on any handle.
C20_AtMostOncePerHandle ==
  \A h \in Conns : \A n \in 1..ncall : Cardinality(EntriesOf(h, n)) <= 1
\* C19: every registered handle is eventually deregistered and its Stream call
\* returns, and every body stream writer eventually stops, whether or not
\* anything is published; a writer stops only on a closed queue, after it has
\* written a frame for every event that was enqueued.
C19_ReaderTerminates ==
  /\ \A c \in Conns : (cpc[c] = "registered") ~>
                        (cpc[c] = "returned" /\ c \notin Range(Subs(cuser[c])))
  /\ \A c \in Conns : (wpc[c] = "running") ~> (wpc[c] = "done")
  /\ [](\A c \in Conns : wpc[c] = "done" =>
          /\ closed[c] /\ queue[c] = <<>>
          /\ written[c] = [i \in 1..Len(log[c]) |-> Frame(log[c][i])])

\* C19 witness: a writer waiting on an empty queue was stopped by the close
\* of its queue, no publishToUser call having been made at all.
C19_Witness ==
  \E c \in Conns : wpc[c] = "done" /\ written[c] = <<>> /\ log[c] = <<>> /\ ncall = 0
====
